---- MODULE Spec2Model ----
(***************************************************************************)
(* Model of calculator.js: the spacing formula (getSpacing), the input     *)
(* reader (readInputs), the calculate handler, the SVG renderer (render,   *)
(* dimArrow, mk, svgLine) and the two triggers (init, resize listener).     *)
(*                                                                         *)
(* Numbers.  Lengths in drawing units (width, height, depth, area sizes,   *)
(* spacing values) are integers counting TENTHS of a unit, so 1.5 units is *)
(* 15 and the fallback margin 1.2 is 12.  Pixel quantities (the scale S    *)
(* and every SVG coordinate) are exact rationals [n, d] in lowest terms    *)
(* with d > 0; d = 0 stands for +Infinity (a division by a zero extent).   *)
(* The IEEE rounding of the JavaScript doubles is not modelled.            *)
(***************************************************************************)
EXTENDS Integers, Sequences, FiniteSets, TLC

(* ---------------------------- bounds ----------------------------------- *)
\* .svg-wrap client sizes tried by a resize: 0, 150, ..., 150 * MaxView
MaxView == 1
\* input-field edits the user makes between two triggers
MaxPending == 1
\* field values tried on the spacing formula alone: 0, 0.5, ..., 0.5 * MaxIn
MaxIn == 5

(* ------------------------- program constants --------------------------- *)
TICK == 5
MIN_LBL == 14
PAD_L == 56
PAD_R == 56
PAD_T == 44
PAD_B == 44
OFF == 12
MinScale == 6
MaxScale == 40

(* --------------------------- arithmetic -------------------------------- *)
Abs(a) == IF a < 0 THEN -a ELSE a

Sign(a) == IF a < 0 THEN -1 ELSE IF a > 0 THEN 1 ELSE 0

RECURSIVE GCD(_, _)
GCD(a, b) == IF b = 0 THEN a ELSE GCD(b, a % b)

\* the rational n/d in lowest terms, d > 0; x/0 with x > 0 is +Infinity
Rat(n, d) ==
    IF d = 0 THEN [n |-> Sign(n), d |-> 0]
    ELSE LET k == GCD(Abs(n), Abs(d))
         IN  [n |-> Sign(d) * (n \div k), d |-> Abs(d) \div k]

RInt(k) == [n |-> k, d |-> 1]
\* a sum with an integer is already in lowest terms
RAdd(a, b) ==
    IF b.d = 1 THEN [n |-> a.n + b.n * a.d, d |-> a.d]
    ELSE IF a.d = 1 THEN [n |-> a.n * b.d + b.n, d |-> b.d]
    ELSE Rat(a.n * b.d + b.n * a.d, a.d * b.d)
RSub(a, b) ==
    IF b.d = 1 THEN [n |-> a.n - b.n * a.d, d |-> a.d]
    ELSE IF a.d = 1 THEN [n |-> a.n * b.d - b.n, d |-> b.d]
    ELSE Rat(a.n * b.d - b.n * a.d, a.d * b.d)
RMul(a, b) == Rat(a.n * b.n, a.d * b.d)
RHalf(a) == Rat(a.n, 2 * a.d)
RLt(a, b) == a.n * b.d < b.n * a.d
RLe(a, b) == a.n * b.d <= b.n * a.d
RAbs(a) == [n |-> Abs(a.n), d |-> a.d]
RDiv(a, b) == Rat(a.n * b.d, a.d * b.n)

\* Math.min / Math.max on rationals
RMin(a, b) == IF RLe(a, b) THEN a ELSE b
RMax(a, b) == IF RLe(a, b) THEN b ELSE a

\* Math.round of t tenths: the nearest integer, halves towards +Infinity
MathRound(t) == (t + 5) \div 10

\* Math.floor(r / 2) for an integer r
FloorHalf(r) == r \div 2

\* the JavaScript remainder a % b (sign of the dividend), b > 0
JsRem(a, b) == Sign(a) * (Abs(a) % b)

Min2(a, b) == IF a <= b THEN a ELSE b
Max2(a, b) == IF a >= b THEN a ELSE b

\* Number.prototype.toFixed(1) and toFixed(2) of t tenths
ToFixed1(t) ==
    (IF t < 0 THEN "-" ELSE "") \o ToString(Abs(t) \div 10) \o "."
        \o ToString(Abs(t) % 10)

ToFixed2(t) == ToFixed1(t) \o "0"

(* --------------------------- getSpacing -------------------------------- *)
\* variant: the margin is computed with an integer division
AxisSpacing_intDiv(area, ext1, ext2) ==
    LET rounded == MathRound(area - (ext1 + ext2))
    IN  IF JsRem(rounded, 3) = 0
        THEN << (10 * rounded) \div 3, (10 * rounded) \div 3,
                (10 * rounded) \div 3 >>
        ELSE LET gap == Min2(3, FloorHalf(rounded))
             IN  << Max2(0, 10 * ((rounded - gap) \div 2)), 10 * gap >>

\* one axis of getSpacing: the array [margin, gap, margin] or [margin, gap],
\* in tenths, from the area size and the two view extents on that axis
AxisSpacing(area, ext1, ext2) ==
    LET raw == area - (ext1 + ext2)
        rounded == MathRound(raw)
    IN  IF JsRem(rounded, 3) = 0
        THEN << (10 * rounded) \div 3, (10 * rounded) \div 3,
                (10 * rounded) \div 3 >>
        ELSE LET gap == Min2(3, FloorHalf(rounded))
                 margin == Max2(0, 5 * (rounded - gap))
             IN  << margin, 10 * gap >>

\* the integer `rounded` of one axis (vertRounded / horiRounded)
Rounded(area, ext1, ext2) == MathRound(area - (ext1 + ext2))

getSpacing(areaH, areaV, shape) ==
    [ vert |-> AxisSpacing(areaV, shape.FRONT.V, shape.TOP.V),
      hori |-> AxisSpacing(areaH, shape.FRONT.H, shape.RIGHT.H) ]

(* --------------------------- readInputs -------------------------------- *)
\* parseFloat(value) || dflt.  A parsed field is << >> for NaN (an empty or
\* non-numeric field) and << t >> for the number t tenths; NaN and 0 are falsy
OrDefault(p, dflt) == IF p = << >> THEN dflt ELSE IF p[1] = 0 THEN dflt ELSE p[1]

readInputs(f) ==
    LET W == OrDefault(f.width, 60)
        H == OrDefault(f.height, 40)
        D == OrDefault(f.depth, 50)
    IN  [ W |-> W, H |-> H, D |-> D,
          aH |-> OrDefault(f.areaH, 160),
          aV |-> OrDefault(f.areaV, 160),
          shape |-> [ TOP |-> [H |-> W, V |-> D],
                      FRONT |-> [H |-> W, V |-> H],
                      RIGHT |-> [H |-> D, V |-> H] ] ]

(* --------------------------- SVG helpers ------------------------------- *)
\* the element mk('rect', {x, y, width, height, class}) appends
Rect(x, y, w, h, cls) ==
    [tag |-> "rect", x |-> x, y |-> y, width |-> w, height |-> h, class |-> cls]

\* the element svgLine / mk('line', {x1, y1, x2, y2, class}) appends
svgLine(x1, y1, x2, y2, cls) ==
    [tag |-> "line", x1 |-> x1, y1 |-> y1, x2 |-> x2, y2 |-> y2, class |-> cls]

\* Math.hypot(dx, dy); every call of dimArrow is axis-aligned (dx = 0 or dy = 0)
Hypot(dx, dy) == IF dx.n = 0 THEN RAbs(dy) ELSE RAbs(dx)

NoOpts == [labelOffset |-> << >>, labelSide |-> ""]
OptOffset(k) == [labelOffset |-> << k >>, labelSide |-> ""]
OptSide(s) == [labelOffset |-> << >>, labelSide |-> s]

(* --------------------------- dimArrow ---------------------------------- *)
\* The elements one dimArrow call appends: nothing when the arrow is shorter
\* than 1 px, else the arrow line, two ticks and the label.  `of` names the
\* quantity the call measures (fW, dH, h0, ...); it is carried on the
\* elements to tell the call sites apart and is not an SVG attribute.
dimArrow(x1, y1, x2, y2, label, type, opts, of) ==
    LET isSpace == type = "space"
        lineCls == IF isSpace THEN "dim-space" ELSE "dim-shape"
        txtCls == IF isSpace THEN "dim-space-text" ELSE "dim-shape-text"
        mEnd == IF isSpace THEN "url(#ah-red-e)" ELSE "url(#ah-blue-e)"
        mStart == IF isSpace THEN "url(#ah-red-s)" ELSE "url(#ah-blue-s)"
        dx == RSub(x2, x1)
        dy == RSub(y2, y1)
        len == Hypot(dx, dy)
    IN  IF RLt(len, RInt(1)) THEN << >>
        ELSE
        LET px == RDiv(RSub(RInt(0), dy), len)
            py == RDiv(dx, len)
            tx == RMul(px, RInt(TICK))
            ty == RMul(py, RInt(TICK))
            mx == RHalf(RAdd(x1, x2))
            my == RHalf(RAdd(y1, y2))
            isH == RLt(RAbs(dy), Rat(1, 2))
            isV == RLt(RAbs(dx), Rat(1, 2))
            short == RLt(len, RInt(MIN_LBL))
            hOff == IF opts.labelOffset # << >> THEN opts.labelOffset[1] ELSE -8
            side == IF opts.labelSide = "right" THEN 1 ELSE -1
            vOff == IF opts.labelOffset # << >> THEN opts.labelOffset[1] ELSE 12
            pos == IF isH
                   THEN IF short
                        THEN [x |-> RAdd(RMax(x1, x2), RInt(5)), y |-> my,
                              anchor |-> "start"]
                        ELSE [x |-> mx, y |-> RAdd(my, RInt(hOff)),
                              anchor |-> "middle"]
                   ELSE IF isV
                   THEN [x |-> RAdd(mx, RInt(side * vOff)),
                         y |-> IF short THEN RSub(my, RInt(10)) ELSE my,
                         anchor |-> IF opts.labelSide = "right" THEN "start"
                                    ELSE "end"]
                   ELSE [x |-> RInt(0), y |-> RInt(0), anchor |-> ""]
        IN  << [tag |-> "line", x1 |-> x1, y1 |-> y1, x2 |-> x2, y2 |-> y2,
                class |-> lineCls, mEnd |-> mEnd, mStart |-> mStart, of |-> of],
               svgLine(RAdd(x1, tx), RAdd(y1, ty), RSub(x1, tx), RSub(y1, ty),
                       lineCls) @@ [of |-> of],
               svgLine(RAdd(x2, tx), RAdd(y2, ty), RSub(x2, tx), RSub(y2, ty),
                       lineCls) @@ [of |-> of],
               [tag |-> "text", class |-> txtCls, baseline |-> "middle",
                content |-> label, x |-> pos.x, y |-> pos.y,
                anchor |-> pos.anchor, of |-> of] >>

(* ----------------------------- render ---------------------------------- *)
\* variant: the value is formatted whether or not it was calculated
fmt_always(v, calculated) == ToFixed1(v)

\* const fmt = v => calculated ? v.toFixed(1) : '?'
fmt(v, calculated) == IF calculated THEN ToFixed1(v) ELSE "?"

\* Math.max((wrap.clientWidth || 600) - 2, 200), the same for the height
Avail(client, dflt) == Max2((IF client = 0 THEN dflt ELSE client) - 2, 200)

\* (avail - padA - padB) / totalUnits, totalUnits in tenths
AxisScale(avail, padA, padB, total) == Rat(10 * (avail - padA - padB), total)

\* variant: the upper bound 40 is left out
FitScale_noCap(scaleH, scaleV) == RMax(RInt(MinScale), RMin(scaleH, scaleV))

\* variant: only the horizontal fit is taken
FitScale_widthOnly(scaleH, scaleV) ==
    RMax(RInt(MinScale), RMin(scaleH, RInt(MaxScale)))

\* Math.max(6, Math.min(scaleH, scaleV, 40))
FitScale(scaleH, scaleV) ==
    RMax(RInt(MinScale), RMin(RMin(scaleH, scaleV), RInt(MaxScale)))

\* the values u = 0, 1, ... for which a grid loop draws a line: it runs while
\* u <= totalUnits and stops at the first line beyond the area's far edge
RECURSIVE GridLoop(_, _, _, _, _)
GridLoop(u, total, S, da0, daLen) ==
    IF 10 * u <= total
       /\ ~ RLt(RAdd(RAdd(da0, daLen), Rat(1, 10)), RAdd(da0, RMul(RInt(u), S)))
    THEN << u >> \o GridLoop(u + 1, total, S, da0, daLen)
    ELSE << >>

\* variant: the spacing arrows are drawn unguarded
SpaceGuard_none(p) == TRUE

\* the guard `pX > 1` in front of every spacing arrow
SpaceGuard(p) == RLt(RInt(1), p)

\* the locals of one render call: arguments, unit extents, scale, and the
\* pixel geometry of the drawing area and the four boxes
Layout(shape, sp, wrapW, wrapH) ==
    LET fW == shape.FRONT.H
        fH == shape.FRONT.V
        dW == shape.RIGHT.H
        dH == shape.TOP.V
        totalUnitsH == sp.h0 + fW + sp.h1 + dW + sp.h0
        totalUnitsV == sp.v0 + dH + sp.v1 + fH + sp.v0
        availW == Avail(wrapW, 600)
        availH == Avail(wrapH, 500)
        scaleH == AxisScale(availW, PAD_L, PAD_R, totalUnitsH)
        scaleV == AxisScale(availH, PAD_T, PAD_B, totalUnitsV)
        S == FitScale(scaleH, scaleV)
        P(u) == RMul(Rat(u, 10), S)
        daX == RInt(PAD_L)
        daY == RInt(PAD_T)
        daW == P(totalUnitsH)
        daH == P(totalUnitsV)
        pH0 == P(sp.h0)
        pH1 == P(sp.h1)
        pV0 == P(sp.v0)
        pV1 == P(sp.v1)
        pfW == P(fW)
        pfH == P(fH)
        pdW == P(dW)
        pdH == P(dH)
        tlX == RAdd(daX, pH0)
        tlY == RAdd(daY, pV0)
        trX == RAdd(RAdd(RAdd(daX, pH0), pfW), pH1)
        blY == RAdd(RAdd(RAdd(daY, pV0), pdH), pV1)
    IN  [ sp |-> sp, fW |-> fW, fH |-> fH, dW |-> dW, dH |-> dH,
          totalUnitsH |-> totalUnitsH, totalUnitsV |-> totalUnitsV,
          availW |-> availW, availH |-> availH,
          scaleH |-> scaleH, scaleV |-> scaleV, S |-> S,
          daX |-> daX, daY |-> daY, daW |-> daW, daH |-> daH,
          pH0 |-> pH0, pH1 |-> pH1, pV0 |-> pV0, pV1 |-> pV1,
          tlX |-> tlX, tlY |-> tlY, tlW |-> pfW, tlH |-> pdH,
          trX |-> trX, trY |-> tlY, trW |-> pdW, trH |-> pdH,
          blX |-> tlX, blY |-> blY, blW |-> pfW, blH |-> pfH,
          brX |-> trX, brY |-> blY, brW |-> pdW, brH |-> pfH ]

\* mk('line', {x1, y1, x2, y2, class: 'ext-dot'})
extDot(x1, y1, x2, y2) == svgLine(x1, y1, x2, y2, "ext-dot")

\* a view-name label
ViewLabel(x, y, t) ==
    [tag |-> "text", class |-> "view-label", baseline |-> "middle",
     content |-> t, x |-> x, y |-> y, anchor |-> "middle"]

\* the grid lines: vertical ones at every integer unit, then horizontal ones
GridLines(L) ==
    LET daB == RAdd(L.daY, L.daH)
        daR == RAdd(L.daX, L.daW)
        usH == GridLoop(0, L.totalUnitsH, L.S, L.daX, L.daW)
        usV == GridLoop(0, L.totalUnitsV, L.S, L.daY, L.daH)
        X(u) == RAdd(L.daX, RMul(RInt(u), L.S))
        Y(u) == RAdd(L.daY, RMul(RInt(u), L.S))
    IN  [i \in 1..Len(usH) |->
              svgLine(X(usH[i]), L.daY, X(usH[i]), daB, "grid-line")]
        \o [i \in 1..Len(usV) |->
              svgLine(L.daX, Y(usV[i]), daR, Y(usV[i]), "grid-line")]

\* variant: the grid is drawn before the background fill
Backdrop_gridUnder(L) ==
    GridLines(L)
        \o << Rect(L.daX, L.daY, L.daW, L.daH, "draw-area-bg"),
              Rect(L.daX, L.daY, L.daW, L.daH, "draw-area-box") >>

\* background fill, then the grid lines, then the drawing-area border
Backdrop(L) ==
    << Rect(L.daX, L.daY, L.daW, L.daH, "draw-area-bg") >>
        \o GridLines(L)
        \o << Rect(L.daX, L.daY, L.daW, L.daH, "draw-area-box") >>

\* the four boxes, the diagonal of the top-right box and the view labels
Boxes(L) ==
    << Rect(L.tlX, L.tlY, L.tlW, L.tlH, "box"),
       Rect(L.trX, L.trY, L.trW, L.trH, "box-accent"),
       Rect(L.blX, L.blY, L.blW, L.blH, "box"),
       Rect(L.brX, L.brY, L.brW, L.brH, "box"),
       svgLine(L.trX, RAdd(L.trY, L.trH), RAdd(L.trX, L.trW), L.trY, "diag"),
       ViewLabel(RAdd(L.tlX, RHalf(L.tlW)), RAdd(L.tlY, RHalf(L.tlH)), "TOP"),
       ViewLabel(RAdd(L.blX, RHalf(L.blW)), RAdd(L.blY, RHalf(L.blH)), "FRONT"),
       ViewLabel(RAdd(L.brX, RHalf(L.brW)), RAdd(L.brY, RHalf(L.brH)), "RIGHT") >>

\* shape dimension arrows (blue), each followed by its two extension lines
ShapeArrows(L, calculated) ==
    LET off == RInt(OFF)
        tlR == RAdd(L.tlX, L.tlW)
        tlB == RAdd(L.tlY, L.tlH)
        trR == RAdd(L.trX, L.trW)
        trB == RAdd(L.trY, L.trH)
        blR == RAdd(L.blX, L.blW)
        blB == RAdd(L.blY, L.blH)
        brR == RAdd(L.brX, L.brW)
        brB == RAdd(L.brY, L.brH)
        tlTop == RSub(L.tlY, off)
        tlLeft == RSub(L.tlX, off)
        trTop == RSub(L.trY, off)
        trRight == RAdd(trR, off)
        blBot == RAdd(blB, off)
        blLeft == RSub(L.blX, off)
        brBot == RAdd(brB, off)
        brRight == RAdd(brR, off)
        f(v) == fmt(v, calculated)
    IN  dimArrow(L.tlX, tlTop, tlR, tlTop, f(L.fW), "shape", NoOpts, "fW")
        \o << extDot(L.tlX, tlTop, L.tlX, L.tlY), extDot(tlR, tlTop, tlR, L.tlY) >>
        \o dimArrow(tlLeft, L.tlY, tlLeft, tlB, f(L.dH), "shape",
                    OptSide("left"), "dH")
        \o << extDot(tlLeft, L.tlY, L.tlX, L.tlY), extDot(tlLeft, tlB, L.tlX, tlB) >>
        \o dimArrow(L.trX, trTop, trR, trTop, f(L.dW), "shape", NoOpts, "dW")
        \o << extDot(L.trX, trTop, L.trX, L.trY), extDot(trR, trTop, trR, L.trY) >>
        \o dimArrow(trRight, L.trY, trRight, trB, f(L.dH), "shape",
                    OptSide("right"), "dH")
        \o << extDot(trRight, L.trY, trR, L.trY), extDot(trRight, trB, trR, trB) >>
        \o dimArrow(L.blX, blBot, blR, blBot, f(L.fW), "shape",
                    OptOffset(10), "fW")
        \o << extDot(L.blX, blBot, L.blX, blB), extDot(blR, blBot, blR, blB) >>
        \o dimArrow(blLeft, L.blY, blLeft, blB, f(L.fH), "shape",
                    OptSide("left"), "fH")
        \o << extDot(blLeft, L.blY, L.blX, L.blY), extDot(blLeft, blB, L.blX, blB) >>
        \o dimArrow(L.brX, brBot, brR, brBot, f(L.dW), "shape",
                    OptOffset(10), "dW")
        \o << extDot(L.brX, brBot, L.brX, brB), extDot(brR, brBot, brR, brB) >>
        \o dimArrow(brRight, L.brY, brRight, brB, f(L.fH), "shape",
                    OptSide("right"), "fH")
        \o << extDot(brRight, L.brY, brR, L.brY), extDot(brRight, brB, brR, brB) >>

\* spacing dimension arrows (red): along the top edge of the top row, the
\* bottom edge of the bottom row, the left edge and the right edge
SpaceArrows(L, calculated) ==
    LET daR == RAdd(L.daX, L.daW)
        daB == RAdd(L.daY, L.daH)
        tlR == RAdd(L.tlX, L.tlW)
        tlB == RAdd(L.tlY, L.tlH)
        trR == RAdd(L.trX, L.trW)
        trB == RAdd(L.trY, L.trH)
        blR == RAdd(L.blX, L.blW)
        blB == RAdd(L.blY, L.blH)
        brR == RAdd(L.brX, L.brW)
        brB == RAdd(L.brY, L.brH)
        Sp(guard, x1, y1, x2, y2, v, opts, of) ==
            IF SpaceGuard(guard)
            THEN dimArrow(x1, y1, x2, y2, fmt(v, calculated), "space", opts, of)
            ELSE << >>
    IN  Sp(L.pH0, L.daX, L.tlY, L.tlX, L.tlY, L.sp.h0, OptOffset(10), "h0")
        \o Sp(L.pH1, tlR, L.tlY, L.trX, L.tlY, L.sp.h1, OptOffset(10), "h1")
        \o Sp(L.pH0, trR, L.tlY, daR, L.tlY, L.sp.h0, OptOffset(10), "h0")
        \o Sp(L.pH0, L.daX, blB, L.blX, blB, L.sp.h0, OptOffset(-8), "h0")
        \o Sp(L.pH1, blR, blB, L.brX, blB, L.sp.h1, OptOffset(-8), "h1")
        \o Sp(L.pH0, brR, blB, daR, blB, L.sp.h0, OptOffset(-8), "h0")
        \o Sp(L.pV0, L.tlX, L.daY, L.tlX, L.tlY, L.sp.v0, OptSide("right"), "v0")
        \o Sp(L.pV1, L.tlX, tlB, L.tlX, L.blY, L.sp.v1, OptSide("right"), "v1")
        \o Sp(L.pV0, L.tlX, blB, L.tlX, daB, L.sp.v0, OptSide("right"), "v0")
        \o Sp(L.pV0, trR, L.daY, trR, L.trY, L.sp.v0, OptSide("left"), "v0")
        \o Sp(L.pV1, trR, trB, trR, L.brY, L.sp.v1, OptSide("left"), "v1")
        \o Sp(L.pV0, trR, brB, trR, daB, L.sp.v0, OptSide("left"), "v0")

\* the elements render appends to the emptied container, in order
Draw(L, calculated) ==
    Backdrop(L) \o Boxes(L) \o ShapeArrows(L, calculated)
        \o SpaceArrows(L, calculated)

\* the width and height attributes render sets on the svg element
SvgSize(L) ==
    [ width |-> RAdd(RAdd(L.daX, L.daW), RInt(PAD_R)),
      height |-> RAdd(RAdd(L.daY, L.daH), RInt(PAD_B)) ]

\* variant: render appends to what the container already holds
ClearContent_keep(old) == old

\* _g.innerHTML = '' : the container after render has emptied it
ClearContent(old) == << >>

\* the spacing the init function and the resize listener pass before any
\* calculation: { v0: 2, v1: 3, h0: 1.2, h1: 2.4 }
FallbackSp == [v0 |-> 20, v1 |-> 30, h0 |-> 12, h1 |-> 24]

\* sp.vert.length > 1 ? sp.vert[1] : sp.vert[0] (JavaScript indexes from 0)
Second(arr) == IF Len(arr) > 1 THEN arr[2] ELSE arr[1]

\* the { v0, v1, h0, h1 } calculate passes to render
CalcSp(in) ==
    LET sp == getSpacing(in.aH, in.aV, in.shape)
    IN  [v0 |-> sp.vert[1], v1 |-> Second(sp.vert),
         h0 |-> sp.hori[1], h1 |-> Second(sp.hori)]

\* the result rows calculate writes: key and value.toFixed(2)
ResultRows(sp) ==
    << << "h0  side margins", ToFixed2(sp.h0) >>,
       << "h1  mid gap", ToFixed2(sp.h1) >>,
       << "v0  top/bot", ToFixed2(sp.v0) >>,
       << "v1  mid gap", ToFixed2(sp.v1) >> >>

(* ------------------------------ state ---------------------------------- *)
VARIABLES
    fields,    \* parsed values of the five input fields
    wrapW,     \* .svg-wrap clientWidth
    wrapH,     \* .svg-wrap clientHeight
    display,   \* #results-section style.display
    rows,      \* #result-rows content
    g,         \* children of #drawing-content (_g), in document order
    svg,       \* width / height attributes of #drawing
    rl,        \* arguments and locals of the latest render call
    trigger,   \* what ran last: "init", "resize", "calculate" or "edit"
    pending,   \* input-field edits since the latest trigger
    didCalc    \* history: the Calculate button has been pressed

vars == << fields, wrapW, wrapH, display, rows, g, svg, rl, trigger, pending,
           didCalc >>

FieldNames == {"width", "height", "depth", "areaH", "areaV"}

\* values each field is edited to: NaN (<< >>) or a length in tenths; the
\* height stays empty, the depth already varies both axes
FieldVals(name) ==
    CASE name = "width" -> { << >>, << 5 >> }
      [] name = "height" -> { << >> }
      [] name = "depth" -> { << >>, << 4 >> }
      [] name = "areaH" -> { << >>, << 3 >> }
      [] name = "areaV" -> { << >>, << 3 >> }

WrapSizes == { 150 * k : k \in 0..MaxView }

\* render(shape, sp, calculated) with the container holding g and the
\* wrapper measuring w by h
Render(shape, sp, calculated, w, h) ==
    \E L \in { Layout(shape, sp, w, h) } :
        /\ g' = ClearContent(g) \o Draw(L, calculated)
        /\ svg' = SvgSize(L)
        /\ rl' = [calculated |-> calculated, shape |-> shape] @@ L

\* calculate(), the wrapper measuring w by h
calculate(w, h) ==
    LET in == readInputs(fields)
        sp == CalcSp(in)
    IN  /\ display' = ""
        /\ rows' = ResultRows(sp)
        /\ Render(in.shape, sp, TRUE, w, h)

\* the page as loaded: every input field empty, the results section hidden
InitialFields == [name \in FieldNames |-> << >>]
InitialDisplay == "none"

\* the init function, run once when the script loads
Init ==
    /\ fields = InitialFields
    /\ wrapW \in WrapSizes
    /\ wrapH \in WrapSizes
    /\ display = InitialDisplay
    /\ rows = << >>
    /\ \E L \in { Layout(readInputs(fields).shape, FallbackSp, wrapW, wrapH) } :
           /\ g = Draw(L, FALSE)
           /\ svg = SvgSize(L)
           /\ rl = [calculated |-> FALSE, shape |-> readInputs(fields).shape] @@ L
    /\ trigger = "init"
    /\ pending = 0
    /\ didCalc = FALSE

\* the user changes one input field
Edit ==
    \E name \in FieldNames :
      \E v \in FieldVals(name) :
        /\ pending < MaxPending
        /\ fields[name] # v
        /\ fields' = [fields EXCEPT ![name] = v]
        /\ trigger' = "edit"
        /\ pending' = pending + 1
        /\ UNCHANGED << wrapW, wrapH, display, rows, g, svg, rl, didCalc >>

\* the Calculate button
Calculate ==
    /\ UNCHANGED << fields, wrapW, wrapH >>
    /\ calculate(wrapW, wrapH)
    /\ trigger' = "calculate"
    /\ pending' = 0
    /\ didCalc' = TRUE

\* the window is resized to a new wrapper size and the listener runs
Resize ==
    \E w \in WrapSizes, h \in WrapSizes :
        /\ wrapW' = w
        /\ wrapH' = h
        /\ UNCHANGED fields
        /\ LET calcDone == display # "none"
           IN  IF calcDone
               THEN calculate(w, h)
               ELSE /\ Render(readInputs(fields).shape, FallbackSp, FALSE, w, h)
                    /\ UNCHANGED << display, rows >>
        /\ trigger' = "resize"
        /\ pending' = 0
        /\ UNCHANGED didCalc

Next == Edit \/ Calculate \/ Resize

Spec == Init /\ [][Next]_vars

(* ---------------- the spacing formula on its own ----------------------- *)
\* parsed field values the formula is tried on; 0 selects the default
InputVals == { << 5 * k >> : k \in 0..MaxIn }

\* any field values, nothing calculated or drawn yet
SpacingInit ==
    /\ fields \in [FieldNames -> InputVals]
    /\ wrapW = 0
    /\ wrapH = 0
    /\ display = InitialDisplay
    /\ rows = << >>
    /\ g = << >>
    /\ svg = [width |-> RInt(0), height |-> RInt(0)]
    /\ rl = [sp |-> FallbackSp, calculated |-> FALSE]
    /\ trigger = "init"
    /\ pending = 0
    /\ didCalc = FALSE

\* the first half of calculate(): readInputs, getSpacing and the result rows
SpacingStep ==
    /\ rows = << >>
    /\ display' = ""
    /\ rows' = ResultRows(CalcSp(readInputs(fields)))
    /\ rl' = [sp |-> CalcSp(readInputs(fields)), calculated |-> TRUE]
    /\ UNCHANGED << fields, wrapW, wrapH, g, svg, trigger, pending, didCalc >>

SpacingNext == SpacingStep

SpacingSpec == SpacingInit /\ [][SpacingNext]_vars

(* ============================ properties =============================== *)
\* what the latest state of the input fields gives readInputs / getSpacing
In == readInputs(fields)
SpNow == getSpacing(In.aH, In.aV, In.shape)
VertRounded == Rounded(In.aV, In.shape.FRONT.V, In.shape.TOP.V)
HoriRounded == Rounded(In.aH, In.shape.FRONT.H, In.shape.RIGHT.H)

\* the smaller of the two axis-fit scales of the latest render
MinFit == RMin(rl.scaleH, rl.scaleV)

SpaceClasses == {"dim-space", "dim-space-text"}
DimTextClasses == {"dim-shape-text", "dim-space-text"}
GapNames == {"h0", "h1", "v0", "v1"}

\* the stacking group of an element, by its class
Group(e) ==
    CASE e.class = "draw-area-bg" -> 1
      [] e.class = "grid-line" -> 2
      [] e.class = "draw-area-box" -> 3
      [] e.class \in {"box", "box-accent"} -> 4
      [] e.class = "diag" -> 5
      [] e.class = "view-label" -> 6
      [] e.class \in {"dim-shape", "dim-shape-text", "ext-dot"} -> 7
      [] e.class \in SpaceClasses -> 8

AllNonNegative(arr) == \A i \in 1..Len(arr) : arr[i] >= 0

(* ------------------------------- C1 ------------------------------------ *)
\* C1: every value getSpacing returns in vert and hori, in either branch, is
\* >= 0 (the view extents are positive in every state of the model).
C1_SpacingNonNegative ==
    AllNonNegative(SpNow.vert) /\ AllNonNegative(SpNow.hori)

(* ------------------------------- C2 ------------------------------------ *)
\* the branch rules of one axis: equal thirds when rounded is divisible by 3,
\* else gap = min(3, floor(rounded / 2)) and margin >= 0  (values in tenths)
AxisBranches(r, arr) ==
    IF r % 3 = 0
    THEN Len(arr) = 3 /\ \A i \in 1..3 : 3 * arr[i] = 10 * r
    ELSE /\ Len(arr) = 2
         /\ arr[2] = 10 * (IF r \div 2 < 3 THEN r \div 2 ELSE 3)
         /\ arr[1] >= 0

AxisSum(arr) == 2 * arr[1] + Second(arr)

\* width=6, height=4, depth=5, areaH=16, areaV=16 gives v0=2, v1=3, h0=1.5, h1=2
C2_Example ==
    (In.W = 60 /\ In.H = 40 /\ In.D = 50 /\ In.aH = 160 /\ In.aV = 160)
        => CalcSp(In) = [v0 |-> 20, v1 |-> 30, h0 |-> 15, h1 |-> 20]

\* C2 as stated: for every integer rounded, positive, zero or negative, the
\* margin and gap of the axis satisfy 2*margin + gap = rounded, with the branch
\* rules above, and the example holds.
C2_SumIsRounded ==
    /\ AxisBranches(VertRounded, SpNow.vert)
    /\ AxisBranches(HoriRounded, SpNow.hori)
    /\ AxisSum(SpNow.vert) = 10 * VertRounded
    /\ AxisSum(SpNow.hori) = 10 * HoriRounded
    /\ C2_Example

AxisSumAmended(r, arr) ==
    IF r % 3 = 0 \/ r >= -1
    THEN AxisSum(arr) = 10 * r
    ELSE arr[1] = 0 /\ AxisSum(arr) = 10 * (r \div 2)

\* C2 amended: 2*margin + gap = rounded whenever rounded is divisible by 3 or
\* rounded >= -1; for any other negative rounded the margin is clamped to 0, so
\* 2*margin + gap = floor(rounded / 2).  The branch rules and the example hold
\* for every rounded.
C2_SumIsRoundedUnlessClamped ==
    /\ AxisBranches(VertRounded, SpNow.vert)
    /\ AxisBranches(HoriRounded, SpNow.hori)
    /\ AxisSumAmended(VertRounded, SpNow.vert)
    /\ AxisSumAmended(HoriRounded, SpNow.hori)
    /\ C2_Example

\* the formula has run, on the example's vertical axis (rounded = 7) and on a
\* horizontal axis with a clamped margin (rounded = -8)
C2_Witness ==
    /\ rows # << >>
    /\ VertRounded = 7 /\ HoriRounded = -8
    /\ rl.sp = [v0 |-> 20, v1 |-> 30, h0 |-> 0, h1 |-> -40]
    /\ rows[2] = << "h1  mid gap", "-4.00" >>

(* ------------------------------- C3 ------------------------------------ *)
\* C3: the scale S chosen by render lies in [6, 40], and equals
\* min(scaleH, scaleV) whenever that minimum lies in [6, 40].
C3_ScaleClamped ==
    /\ RLe(RInt(6), rl.S) /\ RLe(rl.S, RInt(40))
    /\ (RLe(RInt(6), MinFit) /\ RLe(MinFit, RInt(40))) => rl.S = MinFit

\* a render whose fit lies strictly inside the bounds
C3_Witness ==
    /\ rl.calculated
    /\ RLt(RInt(6), MinFit) /\ RLt(MinFit, RInt(40))
    /\ rl.S = MinFit

(* ------------------------------- C4 ------------------------------------ *)
\* the svg (padding plus drawing area) is no larger than the available space
FitsViewport ==
    /\ RLe(svg.width, RInt(rl.availW))
    /\ RLe(svg.height, RInt(rl.availH))

\* C4 as stated: S never exceeds what the viewport allows, S <= scaleH and
\* S <= scaleV, so the drawing area plus padding fits inside availW x availH.
C4_NeverExceedsViewport ==
    /\ RLe(rl.S, rl.scaleH)
    /\ RLe(rl.S, rl.scaleV)
    /\ FitsViewport

\* C4 amended: S <= scaleH, S <= scaleV and the drawing fits whenever
\* min(scaleH, scaleV) >= 6; otherwise S is the lower bound 6.
C4_ExceedsOnlyAtLowerBound ==
    IF RLe(RInt(6), MinFit)
    THEN RLe(rl.S, rl.scaleH) /\ RLe(rl.S, rl.scaleV) /\ FitsViewport
    ELSE rl.S = RInt(6)

\* a resize after which the fit is above the lower bound on both axes and the
\* two axis fits differ
C4_Witness ==
    /\ trigger = "resize"
    /\ RLt(RInt(6), MinFit)
    /\ rl.scaleH # rl.scaleV
    /\ FitsViewport

(* ------------------------------- C5 ------------------------------------ *)
\* C5: for positive inputs the grid extent render computes from the spacing
\* getSpacing returned is strictly greater than 0 on both axes.
C5_GridExtentPositive ==
    rl.calculated => (rl.totalUnitsH > 0 /\ rl.totalUnitsV > 0)

(* ------------------------------- C6 ------------------------------------ *)
\* C6: after any sequence of triggers that ends with a calculate, the element
\* list, the svg size and the box geometry are those of one direct calculate
\* on the same input values and viewport drawn into an empty container.
C6_CalculateSupersedes ==
    trigger = "calculate" =>
        \E L \in { Layout(In.shape, CalcSp(In), wrapW, wrapH) } :
            /\ g = Draw(L, TRUE)
            /\ svg = SvgSize(L)
            /\ rl = [calculated |-> TRUE, shape |-> In.shape] @@ L

\* a calculate that follows an edit and comes after an uncalculated render of
\* another size cannot be told apart from history; this one has edited inputs
\* and a non-default viewport behind it
C6_Witness ==
    /\ trigger = "calculate"
    /\ fields.areaV = << 3 >> /\ fields.depth = << 4 >>
    /\ wrapW = 150 /\ wrapH = 0
    /\ Len(g) > 0

(* ------------------------------- C7 ------------------------------------ *)
\* C7: in the element list of any render the groups appear in the order
\* background, grid lines, border, boxes, diagonal, view labels, shape arrows
\* with extension lines, spacing arrows: no element of a later group precedes
\* an element of an earlier one.
C7_GroupOrder ==
    \A i \in 1..(Len(g) - 1) : Group(g[i]) <= Group(g[i + 1])

\* a render in which all eight groups are present
C7_Witness == { Group(g[i]) : i \in 1..Len(g) } = 1..8

(* ------------------------------- C8 ------------------------------------ *)
\* C8: for each spacing value among h0, h1, v0, v1 whose scaled extent is
\* <= 1 px, the element list holds no spacing arrow (line, tick or label) for
\* that gap.
C8_TinyGapHasNoArrow ==
    \A q \in GapNames :
        RLe(RMul(Rat(rl.sp[q], 10), rl.S), RInt(1)) =>
            ~ \E i \in 1..Len(g) : g[i].class \in SpaceClasses /\ g[i].of = q

\* a render with a zero side margin, a negative middle gap, and arrows drawn
\* for the vertical gaps
C8_Witness ==
    /\ rl.calculated
    /\ rl.sp.h0 = 0 /\ rl.sp.h1 < 0
    /\ \E i \in 1..Len(g) : g[i].class \in SpaceClasses /\ g[i].of = "v1"

(* ------------------------------- C9 ------------------------------------ *)
DimLabelsAre(txt) ==
    \A i \in 1..Len(g) : g[i].class \in DimTextClasses => g[i].content = txt

\* C9 as stated: before the first calculate the render uses the fallback
\* spacing whatever the inputs are, and every dimension label is "unknown".
C9_PlaceholderUnknown ==
    ~ didCalc => (rl.sp = FallbackSp /\ DimLabelsAre("unknown"))

\* C9 amended: before the first calculate the render uses the fallback
\* spacing v0=2, v1=3, h0=1.2, h1=2.4 whatever the inputs are, and every
\* dimension label is the placeholder "?".
C9_PlaceholderQuestionMark ==
    ~ didCalc => (rl.sp = FallbackSp /\ ~ rl.calculated /\ DimLabelsAre("?"))

\* a resize before any calculate, with edited inputs, that drew labels
C9_Witness ==
    /\ ~ didCalc /\ trigger = "resize"
    /\ fields.areaH = << 3 >> /\ fields.width = << 5 >>
    /\ \E i \in 1..Len(g) : g[i].class = "dim-space-text"

(* ------------------------------- C10 ----------------------------------- *)
\* C10: once a calculate has run, a resize never changes the spacing values
\* h0, h1, v0, v1 that are drawn and displayed, nor the unit-grid layout.
C10_ResizeKeepsSpacing ==
    [][ (didCalc /\ trigger' = "resize") =>
            (rl'.sp = rl.sp /\ rows' = rows /\ rl'.shape = rl.shape) ]_vars

====
